---- MODULE Spec2Model ----
(***************************************************************************)
(* Precomputed root-of-unity power tables for the coset-combining FRI:     *)
(* src/redshift/IOP/FRI/coset_combining_fri/precomputation.rs.             *)
(*                                                                         *)
(* The four constructors (PrecomputedOmegas, PrecomputedInvOmegas,         *)
(* OmegasInvBitreversed, CosetOmegasInvBitreversed) are modelled as one    *)
(* state machine: domain construction, the prologue of new_for_domain,     *)
(* every worker.scope fork/join with its chunk tasks interleaved one slot  *)
(* write at a time, the bit-reversal loop one iteration at a time, and the *)
(* return of the built structure.                                          *)
(*                                                                         *)
(* Tables are functions over 0..len-1, as the code indexes them.           *)
(***************************************************************************)
EXTENDS Integers, Sequences, FiniteSets, TLC

VARIABLES
    variant,      \* which of the four structures is being built
    size,         \* the size passed to new_for_domain_size
    domain,       \* the Domain handed to new_for_domain
    pc,           \* position of the constructing thread
    fill,         \* which table the current worker.scope fills
    chunk,        \* chunk size the worker chose for the current scope
    tasks,        \* the chunk tasks spawned in the current scope
    omega,        \* local `omega`
    omega_inv,    \* local `omega_inv`
    geninv,       \* local `geninv` (coset bit-reversed variant)
    log_n,        \* local `log_n`
    omegas,       \* Vec `omegas`
    omegas_inv,   \* Vec `omegas_inv`
    coset,        \* Vec `coset`
    allocated,    \* names of the Vecs allocated so far
    domain_size,  \* local `domain_size`
    k,            \* loop index of the bit-reversal loop
    swaps,        \* history: the <<k, rk>> pairs the loop swapped
    writes,       \* history: per slot, the chunk tasks that wrote it in this scope
    spawned,      \* history: whether any chunk task has been spawned yet
    orig,         \* the table before the permutation loop (permutation specification)
    returned      \* the structure handed back to the caller

vars == << variant, size, domain, pc, fill, chunk, tasks, omega, omega_inv, geninv,
           log_n, omegas, omegas_inv, coset, allocated, domain_size, k, swaps,
           writes, spawned, orig, returned >>

(***************************************************************************)
(* Bounds of the model.                                                    *)
(***************************************************************************)
MaxSize == 16      \* sizes 0..MaxSize are requested from new_for_domain_size
MaxChunk == 16     \* chunk sizes 1..MaxChunk are chosen by the worker

Min(a, b) == IF a < b THEN a ELSE b

(***************************************************************************)
(* The field F: the integers modulo P (PrimeField, consumed interface).    *)
(***************************************************************************)
P == 17
S == 4                          \* two-adicity: P - 1 = 2^S * 1
Field == 0 .. (P - 1)
Zero == 0
One == 1
MultiplicativeGenerator == 6    \* F::multiplicative_generator()

Mul(a, b) == (a * b) % P

\* F::pow: square-and-multiply over the bits of the exponent
RECURSIVE Pow(_, _)
Pow(b, e) ==
    IF e = 0 THEN One
    ELSE LET h == Pow(b, e \div 2)
             s == Mul(h, h)
         IN IF e % 2 = 1 THEN Mul(s, b) ELSE s

\* F::inverse: None for the additive identity
None == [some |-> FALSE, val |-> Zero]
Some(v) == [some |-> TRUE, val |-> v]
Inverse(a) ==
    IF a = Zero THEN None
    ELSE Some(CHOOSE x \in Field : Mul(a, x) = One)

\* F::root_of_unity(): the generator raised to the odd part of P - 1
RECURSIVE Pow2(_)
Pow2(n) == IF n = 0 THEN 1 ELSE 2 * Pow2(n - 1)
RootOfUnity == Pow(MultiplicativeGenerator, (P - 1) \div Pow2(S))

(***************************************************************************)
(* Domain::new_for_size                                                    *)
(***************************************************************************)
IsPowerOfTwo(n) == \E e \in 0 .. n : Pow2(e) = n
Log2(n) == CHOOSE e \in 0 .. n : Pow2(e) = n

RECURSIVE SquareTimes(_, _)
SquareTimes(x, n) == IF n = 0 THEN x ELSE SquareTimes(Mul(x, x), n - 1)

NoDomain == [ok |-> FALSE, size |-> 0, generator |-> Zero]
DomainNewForSize(n) ==
    IF IsPowerOfTwo(n) /\ Log2(n) <= S
    THEN [ok |-> TRUE, size |-> n, generator |-> SquareTimes(RootOfUnity, S - Log2(n))]
    ELSE NoDomain

(***************************************************************************)
(* cooley_tukey_ntt::log2_floor and cooley_tukey_ntt::bitreverse           *)
(***************************************************************************)
RECURSIVE log2_floor_from(_, _)
log2_floor_from(num, pow) ==
    IF Pow2(pow + 1) <= num THEN log2_floor_from(num, pow + 1) ELSE pow
log2_floor(num) == log2_floor_from(num, 0)

\* the low l bits of n in reversed order
RECURSIVE bitreverse(_, _)
bitreverse(n, l) ==
    IF l = 0 THEN 0
    ELSE (n % 2) * Pow2(l - 1) + bitreverse(n \div 2, l - 1)

(***************************************************************************)
(* Helpers of the constructors                                             *)
(***************************************************************************)
Variants == {"PrecomputedOmegas", "PrecomputedInvOmegas",
             "OmegasInvBitreversed", "CosetOmegasInvBitreversed"}
BitreversedVariants == {"OmegasInvBitreversed", "CosetOmegasInvBitreversed"}

EmptyVec == << >>
VecLen(t) == Cardinality(DOMAIN t)

\* vec![F::zero(); n]
ZeroVec(n) == [i \in 0 .. (n - 1) |-> Zero]

\* faulty variant: the inverse table allocated at full domain size
PrecomputationSizeFull(n) == n

\* let precomputation_size = domain_size/2;
PrecomputationSize(n) == n \div 2

\* faulty variant: neighbouring chunks overlap by one slot
ChunkHiOverlap(i, c, len) == Min((i + 1) * c + 1, len)

\* slice::chunks_mut(chunk): number of chunks, and the index range of chunk i
NumChunks(len, c) == (len + c - 1) \div c
ChunkLo(i, c) == i * c

ChunkHi(i, c, len) == Min((i + 1) * c, len)

\* faulty variant: the chunk index used as the exponent, without the chunk size
ChunkStartNoStride(base, i, c) == Pow(base, i)

\* let mut u = omega.pow(&[(i * chunk) as u64]);
ChunkStart(base, i, c) == Pow(base, i * c)

\* faulty variant: the shift applied in the first chunk only
CosetChunkStartFirstOnly(base, shift, i, c) ==
    IF i = 0 THEN Mul(Pow(base, i * c), shift) ELSE Pow(base, i * c)

\* let mut u = omega.pow(&[(i * chunk) as u64]); u.mul_assign(&geninv);
CosetChunkStart(base, shift, i, c) == Mul(Pow(base, i * c), shift)

\* faulty variant: the running power squared instead of multiplied by the base
AdvanceSquares(u, base) == Mul(u, u)

\* u.mul_assign(&omega);
Advance(u, base) == Mul(u, base)

\* faulty variant: the coset copy left unscaled
CosetScaleNoop(v) == v

\* v.mul_assign(&mult_generator);
CosetScale(v) == Mul(v, MultiplicativeGenerator)

\* faulty variant: the loop entered for every table longer than one
NeedsPermutationLoose(len) == len > 1

\* if omegas.len() > 2 { ... }
NeedsPermutation(len) == len > 2

\* faulty variant: the guard swaps whenever the two indices differ
ShouldSwapDiffer(i, ri) == i # ri

\* if k < rk { omegas.swap(rk, k); }
ShouldSwap(i, ri) == i < ri

\* faulty variant: one slot overwritten instead of the two exchanged
SwapOneWay(t, a, b) == [t EXCEPT ![a] = t[b]]

\* omegas.swap(rk, k)
Swap(t, a, b) == [t EXCEPT ![a] = t[b], ![b] = t[a]]

\* one iteration of `for k in 0..omegas.len()` of the bit-reversal loop
PermuteIteration(t, i, l) ==
    LET ri == bitreverse(i, l)
    IN IF ShouldSwap(i, ri) THEN Swap(t, ri, i) ELSE t
SwapsAfter(sw, i, l) ==
    LET ri == bitreverse(i, l)
    IN IF ShouldSwap(i, ri) THEN Append(sw, << i, ri >>) ELSE sw

\* the table the current scope fills, and the base its tasks multiply by
Target ==
    CASE fill = "omegas" -> omegas
      [] fill = "omegas_inv" -> omegas_inv
      [] fill = "coset" -> coset
FillBase == IF fill = "omegas_inv" THEN omega_inv ELSE omega

NoStruct == [ok |-> FALSE, omegas |-> EmptyVec, coset |-> EmptyVec,
             omegas_inv |-> EmptyVec, domain_size |-> 0]

(***************************************************************************)
(* Initial states: a caller asks for one of the four structures, either by *)
(* size (new_for_domain_size) or by handing a Domain to new_for_domain.    *)
(* The Domains handed in directly are the degenerate ones, whose generator *)
(* is the additive identity; every well-formed Domain comes from           *)
(* Domain::new_for_size.                                                   *)
(***************************************************************************)
Init ==
    /\ variant \in Variants
    /\ size \in 0 .. MaxSize
    /\ \/ pc = "new_for_domain_size" /\ domain = NoDomain
       \/ /\ pc = "new_for_domain"
          /\ IsPowerOfTwo(size)
          /\ domain = [ok |-> TRUE, size |-> size, generator |-> Zero]
    /\ fill = "none"
    /\ chunk = 0
    /\ tasks = << >>
    /\ omega = Zero
    /\ omega_inv = Zero
    /\ geninv = Zero
    /\ log_n = 0
    /\ omegas = EmptyVec
    /\ omegas_inv = EmptyVec
    /\ coset = EmptyVec
    /\ allocated = {}
    /\ domain_size = 0
    /\ k = 0
    /\ swaps = << >>
    /\ writes = << >>
    /\ spawned = FALSE
    /\ orig = EmptyVec
    /\ returned = NoStruct

\* new_for_domain_size: Domain::new_for_size(size).expect("domain must exist")
NewForDomainSize ==
    /\ pc = "new_for_domain_size"
    /\ LET d == DomainNewForSize(size)
       IN IF d.ok
          THEN domain' = d /\ pc' = "new_for_domain"
          ELSE domain' = domain /\ pc' = "panicked"
    /\ UNCHANGED << variant, size, fill, chunk, tasks, omega, omega_inv, geninv,
                    log_n, omegas, omegas_inv, coset, allocated, domain_size, k,
                    swaps, writes, spawned, orig, returned >>

\* PrecomputedOmegas::new_for_domain, up to the first worker.scope
BeginPrecomputedOmegas ==
    /\ pc = "new_for_domain"
    /\ variant = "PrecomputedOmegas"
    /\ domain_size' = domain.size
    /\ omega' = domain.generator
    /\ LET inv == Inverse(domain.generator)
       IN IF inv.some
          THEN /\ omega_inv' = inv.val
               /\ omegas' = ZeroVec(domain.size)
               /\ omegas_inv' = ZeroVec(PrecomputationSize(domain.size))
               /\ allocated' = {"omegas", "omegas_inv"}
               /\ fill' = "omegas"
               /\ pc' = "scope"
          ELSE /\ pc' = "panicked"
               /\ UNCHANGED << omega_inv, omegas, omegas_inv, allocated, fill >>
    /\ UNCHANGED << variant, size, domain, chunk, tasks, geninv, log_n, coset, k,
                    swaps, writes, spawned, orig, returned >>

\* faulty variant: a missing inverse replaced by zero instead of aborting
BeginPrecomputedInvOmegasUnchecked ==
    /\ pc = "new_for_domain"
    /\ variant = "PrecomputedInvOmegas"
    /\ domain_size' = domain.size
    /\ omega' = domain.generator
    /\ omega_inv' = Inverse(domain.generator).val
    /\ omegas_inv' = ZeroVec(PrecomputationSize(domain.size))
    /\ allocated' = {"omegas_inv"}
    /\ fill' = "omegas_inv"
    /\ pc' = "scope"
    /\ UNCHANGED << variant, size, domain, chunk, tasks, geninv, log_n, omegas,
                    coset, k, swaps, writes, spawned, orig, returned >>

\* PrecomputedInvOmegas::new_for_domain, up to worker.scope
BeginPrecomputedInvOmegas ==
    /\ pc = "new_for_domain"
    /\ variant = "PrecomputedInvOmegas"
    /\ domain_size' = domain.size
    /\ omega' = domain.generator
    /\ LET inv == Inverse(domain.generator)
       IN IF inv.some
          THEN /\ omega_inv' = inv.val
               /\ omegas_inv' = ZeroVec(PrecomputationSize(domain.size))
               /\ allocated' = {"omegas_inv"}
               /\ fill' = "omegas_inv"
               /\ pc' = "scope"
          ELSE /\ pc' = "panicked"
               /\ UNCHANGED << omega_inv, omegas_inv, allocated, fill >>
    /\ UNCHANGED << variant, size, domain, chunk, tasks, geninv, log_n, omegas,
                    coset, k, swaps, writes, spawned, orig, returned >>

\* OmegasInvBitreversed::new_for_domain, up to worker.scope
BeginOmegasInvBitreversed ==
    /\ pc = "new_for_domain"
    /\ variant = "OmegasInvBitreversed"
    /\ domain_size' = domain.size
    /\ LET inv == Inverse(domain.generator)
       IN IF inv.some
          THEN /\ omega' = inv.val
               /\ log_n' = log2_floor(PrecomputationSize(domain.size))
               /\ omegas' = ZeroVec(PrecomputationSize(domain.size))
               /\ allocated' = {"omegas"}
               /\ fill' = "omegas"
               /\ pc' = "scope"
          ELSE /\ pc' = "panicked"
               /\ UNCHANGED << omega, log_n, omegas, allocated, fill >>
    /\ UNCHANGED << variant, size, domain, chunk, tasks, omega_inv, geninv,
                    omegas_inv, coset, k, swaps, writes, spawned, orig, returned >>

\* CosetOmegasInvBitreversed::new_for_domain, up to worker.scope
BeginCosetOmegasInvBitreversed ==
    /\ pc = "new_for_domain"
    /\ variant = "CosetOmegasInvBitreversed"
    /\ domain_size' = domain.size
    /\ LET inv == Inverse(domain.generator)
           ginv == Inverse(MultiplicativeGenerator)
       IN IF ~inv.some
          THEN /\ pc' = "panicked"
               /\ UNCHANGED << omega, log_n, omegas, allocated, geninv, fill >>
          ELSE /\ omega' = inv.val
               /\ log_n' = log2_floor(PrecomputationSize(domain.size))
               /\ omegas' = ZeroVec(PrecomputationSize(domain.size))
               /\ allocated' = {"omegas"}
               /\ IF ginv.some
                  THEN geninv' = ginv.val /\ fill' = "omegas" /\ pc' = "scope"
                  ELSE pc' = "panicked" /\ UNCHANGED << geninv, fill >>
    /\ UNCHANGED << variant, size, domain, chunk, tasks, omega_inv, omegas_inv,
                    coset, k, swaps, writes, spawned, orig, returned >>

\* the task spawned for chunk i of the current scope
NewTask(i, c, len) ==
    [lo |-> ChunkLo(i, c),
     hi |-> ChunkHi(i, c, len),
     next |-> ChunkLo(i, c),
     u |-> CASE fill = "coset" -> MultiplicativeGenerator
             [] variant = "CosetOmegasInvBitreversed" ->
                    CosetChunkStart(FillBase, geninv, i, c)
             [] OTHER -> ChunkStart(FillBase, i, c)]

\* worker.scope(len, |scope, chunk| for (i, v) in chunks_mut(chunk).enumerate()
\*                                    { scope.spawn(...) })
ScopeSpawn ==
    /\ pc = "scope"
    /\ \E c \in 1 .. MaxChunk :
          /\ chunk' = c
          /\ tasks' = [i \in 0 .. (NumChunks(VecLen(Target), c) - 1) |->
                          NewTask(i, c, VecLen(Target))]
          /\ spawned' = (spawned \/ NumChunks(VecLen(Target), c) > 0)
    /\ writes' = [s \in DOMAIN Target |-> << >>]
    /\ pc' = "join"
    /\ UNCHANGED << variant, size, domain, fill, omega, omega_inv, geninv, log_n,
                    omegas, omegas_inv, coset, allocated, domain_size, k, swaps,
                    orig, returned >>

\* the value a task stores into slot s of table t
Stored(t, s, u) == IF fill = "coset" THEN CosetScale(t[s]) ELSE u

\* one turn of `for v in v.iter_mut()` in chunk task i
TaskStep(i) ==
    /\ pc = "join"
    /\ i \in DOMAIN tasks
    /\ tasks[i].next < tasks[i].hi
    /\ LET s == tasks[i].next
           t == tasks[i]
       IN /\ CASE fill = "omegas" ->
                    /\ omegas' = [omegas EXCEPT ![s] = Stored(omegas, s, t.u)]
                    /\ UNCHANGED << omegas_inv, coset >>
              [] fill = "omegas_inv" ->
                    /\ omegas_inv' = [omegas_inv EXCEPT ![s] = Stored(omegas_inv, s, t.u)]
                    /\ UNCHANGED << omegas, coset >>
              [] fill = "coset" ->
                    /\ coset' = [coset EXCEPT ![s] = Stored(coset, s, t.u)]
                    /\ UNCHANGED << omegas, omegas_inv >>
          /\ tasks' = [tasks EXCEPT ![i] =
                          [t EXCEPT !.next = s + 1,
                                    !.u = IF fill = "coset" THEN t.u
                                          ELSE Advance(t.u, FillBase)]]
          /\ writes' = [writes EXCEPT ![s] = Append(@, i)]
    /\ UNCHANGED << variant, size, domain, pc, fill, chunk, omega, omega_inv,
                    geninv, log_n, allocated, domain_size, k, swaps, spawned,
                    orig, returned >>

AllTasksDone == \A i \in DOMAIN tasks : tasks[i].next = tasks[i].hi

\* worker.scope returns once every spawned task has finished
ScopeJoin ==
    /\ pc = "join"
    /\ AllTasksDone
    /\ tasks' = << >>
    /\ chunk' = 0
    /\ CASE variant = "PrecomputedOmegas" /\ fill = "omegas" ->
              fill' = "omegas_inv" /\ pc' = "scope" /\ k' = k
         [] variant = "PrecomputedOmegas" /\ fill = "omegas_inv" ->
              fill' = fill /\ pc' = "clone" /\ k' = k
         [] variant \in BitreversedVariants /\ NeedsPermutation(VecLen(omegas)) ->
              fill' = fill /\ pc' = "bitreverse" /\ k' = 0
         [] OTHER ->
              fill' = fill /\ pc' = "return" /\ k' = k
    /\ writes' = << >>
    /\ UNCHANGED << variant, size, domain, omega, omega_inv, geninv, log_n, omegas,
                    omegas_inv, coset, allocated, domain_size, swaps, spawned,
                    orig, returned >>

\* let mut coset = omegas.clone();
CloneCoset ==
    /\ pc = "clone"
    /\ coset' = omegas
    /\ allocated' = allocated \cup {"coset"}
    /\ fill' = "coset"
    /\ pc' = "scope"
    /\ UNCHANGED << variant, size, domain, chunk, tasks, omega, omega_inv, geninv,
                    log_n, omegas, omegas_inv, domain_size, k, swaps, writes,
                    spawned, orig, returned >>

\* one iteration of the bit-reversal loop:
\*   for k in 0..omegas.len() { let rk = bitreverse(k, log_n); if k < rk { swap } }
LoopStep(here, after) ==
    /\ pc = here
    /\ k < VecLen(omegas)
    /\ omegas' = PermuteIteration(omegas, k, log_n)
    /\ swaps' = SwapsAfter(swaps, k, log_n)
    /\ k' = k + 1
    /\ pc' = IF k + 1 = VecLen(omegas) THEN after ELSE here
    /\ UNCHANGED << variant, size, domain, fill, chunk, tasks, omega, omega_inv,
                    geninv, log_n, omegas_inv, coset, allocated, domain_size,
                    writes, spawned, orig, returned >>

BitreverseStep == LoopStep("bitreverse", "return")

\* the struct literal that ends new_for_domain
Built ==
    [ok |-> TRUE,
     omegas |-> IF variant = "PrecomputedInvOmegas" THEN EmptyVec ELSE omegas,
     coset |-> IF variant = "PrecomputedOmegas" THEN coset ELSE EmptyVec,
     omegas_inv |-> IF variant \in BitreversedVariants THEN EmptyVec ELSE omegas_inv,
     domain_size |-> domain_size]

Return ==
    /\ pc = "return"
    /\ returned' = Built
    /\ pc' = "done"
    /\ UNCHANGED << variant, size, domain, fill, chunk, tasks, omega, omega_inv,
                    geninv, log_n, omegas, omegas_inv, coset, allocated,
                    domain_size, k, swaps, writes, spawned, orig >>

Next ==
    \/ NewForDomainSize
    \/ BeginPrecomputedOmegas
    \/ BeginPrecomputedInvOmegas
    \/ BeginOmegasInvBitreversed
    \/ BeginCosetOmegasInvBitreversed
    \/ ScopeSpawn
    \/ \E i \in DOMAIN tasks : TaskStep(i)
    \/ ScopeJoin
    \/ CloneCoset
    \/ BitreverseStep
    \/ Return

Spec == Init /\ [][Next]_vars

(***************************************************************************)
(* The permutation step on its own: the guarded bit-reversal loop of       *)
(* OmegasInvBitreversed / CosetOmegasInvBitreversed applied twice in a row *)
(* to a table of power-of-two length.                                      *)
(***************************************************************************)
MaxLogM == 3       \* tables of length 2^0 .. 2^MaxLogM
SmallLen == 4      \* up to this length every table over 0..AlphaMax is tried
AlphaMax == 2

PermTables(m) ==
    {[i \in 0 .. (m - 1) |-> i]}
        \cup (IF m <= SmallLen THEN [0 .. (m - 1) -> 0 .. AlphaMax] ELSE {})

PermInit ==
    /\ variant = "OmegasInvBitreversed"
    /\ \E lg \in 0 .. MaxLogM :
          /\ omegas \in PermTables(Pow2(lg))
          /\ size = 2 * Pow2(lg)
    /\ orig = omegas
    /\ log_n = log2_floor(VecLen(omegas))
    /\ pc = "perm1_call"
    /\ domain = NoDomain
    /\ fill = "none"
    /\ chunk = 0
    /\ tasks = << >>
    /\ omega = Zero
    /\ omega_inv = Zero
    /\ geninv = Zero
    /\ omegas_inv = EmptyVec
    /\ coset = EmptyVec
    /\ allocated = {"omegas"}
    /\ domain_size = size
    /\ k = 0
    /\ swaps = << >>
    /\ writes = << >>
    /\ spawned = FALSE
    /\ returned = NoStruct

\* if omegas.len() > 2 { for k in 0..omegas.len() { ... } }
PermCall(here, loop, after) ==
    /\ pc = here
    /\ k' = 0
    /\ swaps' = << >>
    /\ pc' = IF NeedsPermutation(VecLen(omegas)) THEN loop ELSE after
    /\ UNCHANGED << variant, size, domain, fill, chunk, tasks, omega, omega_inv,
                    geninv, log_n, omegas, omegas_inv, coset, allocated,
                    domain_size, writes, spawned, orig, returned >>

PermFirst == PermCall("perm1_call", "perm1_loop", "perm2_call")
PermFirstStep == LoopStep("perm1_loop", "perm2_call")
PermSecond == PermCall("perm2_call", "perm2_loop", "perm_done")
PermSecondStep == LoopStep("perm2_loop", "perm_done")

PermNext ==
    \/ PermFirst
    \/ PermFirstStep
    \/ PermSecond
    \/ PermSecondStep

SpecPerm == PermInit /\ [][PermNext]_vars

(***************************************************************************)
(* Read accessors of the built structures                                  *)
(***************************************************************************)
\* FriPrecomputations::omegas_inv_ref
omegas_inv_ref(self) == self.omegas_inv
\* FftPrecomputations::element_for_index
element_for_index(self, index) == self.omegas_inv[index]
\* FriPrecomputations::omegas_inv_bitreversed / CTPrecomputations::bit_reversed_omegas
omegas_inv_bitreversed(self) == self.omegas

(***************************************************************************)
(* Reference values the properties compare the built tables with           *)
(***************************************************************************)
\* b^i by i successive multiplications
RECURSIVE NaivePow(_, _)
NaivePow(b, i) == IF i = 0 THEN One ELSE Mul(NaivePow(b, i - 1), b)

\* the field element x with x * g = 1
InverseOf(g) == CHOOSE x \in Field : Mul(x, g) = One

\* bit j of n, and n's low l bits read in the opposite order
Bit(n, j) == (n \div Pow2(j)) % 2
RECURSIVE RevBitsFrom(_, _, _)
RevBitsFrom(n, l, j) ==
    IF j = l THEN 0 ELSE Bit(n, j) * Pow2(l - 1 - j) + RevBitsFrom(n, l, j + 1)
RevBits(n, l) == RevBitsFrom(n, l, 0)

Indices(n) == 0 .. (n - 1)
FromSeq(q) == [i \in Indices(Len(q)) |-> q[i + 1]]
HalfSize == domain.size \div 2
SameElements(a, b) ==
    \A v \in Field : Cardinality({i \in DOMAIN a : a[i] = v})
                       = Cardinality({i \in DOMAIN b : b[i] = v})

(***************************************************************************)
(* C1: for every supported power-of-two domain size N >= 2 with generator  *)
(* g, the forward table of PrecomputedOmegas has length N, omegas[i] = g^i *)
(* for every i in [0, N), and omegas[0] = 1; modulo 17 with N = 8 and      *)
(* g = 2 it is [1, 2, 4, 8, 16, 15, 13, 9].                                *)
(***************************************************************************)
C1_ForwardTable ==
    (returned.ok /\ variant = "PrecomputedOmegas" /\ domain.size >= 2) =>
        /\ DOMAIN returned.omegas = Indices(domain.size)
        /\ \A i \in Indices(domain.size) :
              returned.omegas[i] = NaivePow(domain.generator, i)
        /\ returned.omegas[0] = One
        /\ (domain.size = 8 /\ domain.generator = 2) =>
              returned.omegas = FromSeq(<< 1, 2, 4, 8, 16, 15, 13, 9 >>)

C1_Witness ==
    /\ returned.ok
    /\ variant = "PrecomputedOmegas"
    /\ domain.size = 8
    /\ domain.generator = 2
    /\ returned.omegas[7] = 9

(***************************************************************************)
(* C2: the natural-order inverse table built by PrecomputedOmegas and by   *)
(* PrecomputedInvOmegas has length exactly N/2 and omegas_inv[i] =         *)
(* (g^-1)^i for every i in [0, N/2); omegas_inv_ref() and                  *)
(* element_for_index(i) expose exactly these values.                       *)
(***************************************************************************)
C2_InverseTable ==
    (returned.ok /\ variant \in {"PrecomputedOmegas", "PrecomputedInvOmegas"}) =>
        /\ DOMAIN returned.omegas_inv = Indices(HalfSize)
        /\ \A i \in Indices(HalfSize) :
              /\ i \in DOMAIN returned.omegas_inv
              /\ returned.omegas_inv[i] = NaivePow(InverseOf(domain.generator), i)
              /\ Mul(returned.omegas_inv[i], NaivePow(domain.generator, i)) = One
              /\ element_for_index(returned, i)
                    = NaivePow(InverseOf(domain.generator), i)
        /\ omegas_inv_ref(returned)
              = [i \in Indices(HalfSize) |-> NaivePow(InverseOf(domain.generator), i)]
        /\ (domain.size = 8 /\ domain.generator = 2) =>
              omegas_inv_ref(returned) = FromSeq(<< 1, 9, 13, 15 >>)

C2_Witness ==
    /\ returned.ok
    /\ variant = "PrecomputedInvOmegas"
    /\ domain.size = 16
    /\ VecLen(returned.omegas_inv) = 8
    /\ element_for_index(returned, 7) = NaivePow(InverseOf(domain.generator), 7)

(***************************************************************************)
(* C3: determinism of the parallel fill: for a fixed base b and length L   *)
(* the chunked fill gives the same table for every chunk size and every    *)
(* interleaving of the chunk tasks, namely the sequentially computed       *)
(* result[i] = b^i: every slot a task has written holds b^i, whatever the  *)
(* chunk size and whatever the other tasks have done so far.               *)
(***************************************************************************)
C3_Deterministic ==
    (pc = "join" /\ fill # "coset" /\ variant # "CosetOmegasInvBitreversed") =>
        /\ \A s \in DOMAIN Target :
              writes[s] # << >> => Target[s] = NaivePow(FillBase, s)
        /\ AllTasksDone =>
              Target = [s \in DOMAIN Target |-> NaivePow(FillBase, s)]

C3_Witness ==
    /\ pc = "join"
    /\ variant = "PrecomputedInvOmegas"
    /\ VecLen(omegas_inv) = 8
    /\ chunk = 3
    /\ AllTasksDone
    /\ omegas_inv[7] = NaivePow(omega_inv, 7)

(***************************************************************************)
(* C4: with M = N/2, the table tb of OmegasInvBitreversed and the          *)
(* natural-order inverse table t of the same domain satisfy                *)
(* tb[k] = t[bitreverse(k, log2(M))] for every k in [0, M), and tb is a    *)
(* permutation of t.                                                       *)
(***************************************************************************)
NaturalInvTable == [i \in Indices(HalfSize) |-> NaivePow(InverseOf(domain.generator), i)]

C4_BitReversedTable ==
    (returned.ok /\ variant = "OmegasInvBitreversed") =>
        LET tb == omegas_inv_bitreversed(returned)
            t == NaturalInvTable
        IN /\ DOMAIN tb = Indices(HalfSize)
           /\ \A i \in Indices(HalfSize) : tb[i] = t[RevBits(i, Log2(HalfSize))]
           /\ SameElements(tb, t)

C4_Witness ==
    /\ returned.ok
    /\ variant = "OmegasInvBitreversed"
    /\ domain.size = 16
    /\ swaps # << >>
    /\ returned.omegas[1] = NaivePow(InverseOf(domain.generator), 4)
    /\ returned.omegas[1] # NaivePow(InverseOf(domain.generator), 1)

(***************************************************************************)
(* C5: in CosetOmegasInvBitreversed, with s = F::multiplicative_generator()*)
(* every slot k in [0, M) holds s^-1 * (g^-1)^bitreverse(k, log2(M)), so   *)
(* table[0] = inverse(coset shift); the shift is applied exactly once to   *)
(* every entry, whatever the chunk size and the number of chunks.          *)
(***************************************************************************)
ShiftInv == InverseOf(MultiplicativeGenerator)

C5_CosetBitReversedTable ==
    /\ (returned.ok /\ variant = "CosetOmegasInvBitreversed") =>
          LET tb == omegas_inv_bitreversed(returned)
          IN /\ DOMAIN tb = Indices(HalfSize)
             /\ \A i \in Indices(HalfSize) :
                   tb[i] = Mul(ShiftInv, NaturalInvTable[RevBits(i, Log2(HalfSize))])
             /\ HalfSize >= 1 =>
                   tb[0] = ShiftInv /\ Mul(tb[0], MultiplicativeGenerator) = One
    /\ (pc = "join" /\ variant = "CosetOmegasInvBitreversed") =>
          \A i \in DOMAIN omegas :
             omegas[i] = IF writes[i] # << >>
                         THEN Mul(ShiftInv, NaturalInvTable[i])
                         ELSE Zero

C5_Witness ==
    /\ pc = "join"
    /\ variant = "CosetOmegasInvBitreversed"
    /\ domain.size = 16
    /\ chunk = 3
    /\ AllTasksDone
    /\ omegas[7] = Mul(ShiftInv, NaivePow(InverseOf(domain.generator), 7))

(***************************************************************************)
(* C6: in PrecomputedOmegas the coset table has the length N of the        *)
(* forward table and coset[i] = omegas[i] * F::multiplicative_generator()  *)
(* for every i in [0, N), for every chunk size; building the coset copy    *)
(* leaves omegas and omegas_inv unchanged.                                 *)
(***************************************************************************)
C6_CosetState ==
    /\ (returned.ok /\ variant = "PrecomputedOmegas") =>
          /\ DOMAIN returned.coset = DOMAIN returned.omegas
          /\ DOMAIN returned.coset = Indices(domain.size)
          /\ \A i \in Indices(domain.size) :
                returned.coset[i] = Mul(returned.omegas[i], MultiplicativeGenerator)
          /\ returned.omegas = [i \in Indices(domain.size) |->
                                   NaivePow(domain.generator, i)]
          /\ returned.omegas_inv = NaturalInvTable
    /\ (pc = "join" /\ fill = "coset") =>
          \A i \in DOMAIN coset :
             coset[i] = IF writes[i] # << >>
                        THEN Mul(omegas[i], MultiplicativeGenerator)
                        ELSE omegas[i]

C6_CosetStep ==
    (pc \in {"clone", "scope", "join"} /\ (fill = "coset" \/ pc = "clone")) =>
        omegas' = omegas /\ omegas_inv' = omegas_inv

C6_CosetTable == [](C6_CosetState) /\ [][C6_CosetStep]_vars

C6_Witness ==
    /\ pc = "join"
    /\ fill = "coset"
    /\ domain.size = 16
    /\ chunk = 5
    /\ AllTasksDone
    /\ coset[15] = Mul(NaivePow(domain.generator, 15), MultiplicativeGenerator)
    /\ omegas[15] = NaivePow(domain.generator, 15)

(***************************************************************************)
(* C7: the bit-reversal loop (swap slots k and r = bitreverse(k, log2(M))  *)
(* only when k < r) is an involution: on every table whose length is a     *)
(* power of two, applying it twice restores the original sequence; within  *)
(* one application each unordered pair {k, r} is swapped at most once and  *)
(* no slot is swapped with itself; [a, b, c, d] becomes [a, c, b, d].      *)
(***************************************************************************)
C7_Involution ==
    /\ pc = "perm_done" => omegas = orig
    /\ \A a \in 1 .. Len(swaps) :
          /\ swaps[a][1] # swaps[a][2]
          /\ \A b \in 1 .. Len(swaps) :
                a # b => {swaps[a][1], swaps[a][2]} # {swaps[b][1], swaps[b][2]}
    /\ (pc = "perm2_call" /\ VecLen(omegas) = 4) =>
          omegas = FromSeq(<< orig[0], orig[2], orig[1], orig[3] >>)

C7_Witness ==
    /\ pc = "perm_done"
    /\ VecLen(orig) = 8
    /\ \A i, j \in DOMAIN orig : i # j => orig[i] # orig[j]
    /\ Len(swaps) = 2
    /\ omegas = orig

(***************************************************************************)
(* C8: construction failure is fatal and all-or-nothing: in each variant,  *)
(* when domain construction fails or a required inverse does not exist,    *)
(* construction aborts before any chunk task is spawned and before any     *)
(* table slot is written, and no table is ever returned to the caller.     *)
(***************************************************************************)
AllZero(t) == \A i \in DOMAIN t : t[i] = Zero
ConstructionFails ==
    \/ ~domain.ok /\ pc # "new_for_domain_size"
    \/ domain.ok /\ ~Inverse(domain.generator).some /\ pc # "new_for_domain"
    \/ /\ variant = "CosetOmegasInvBitreversed"
       /\ domain.ok /\ ~Inverse(MultiplicativeGenerator).some /\ pc # "new_for_domain"

C8_FatalFailure ==
    /\ ConstructionFails => pc = "panicked"
    /\ pc = "panicked" =>
          /\ ConstructionFails
          /\ ~spawned
          /\ tasks = << >>
          /\ writes = << >>
          /\ AllZero(omegas) /\ AllZero(omegas_inv) /\ AllZero(coset)
          /\ returned = NoStruct
    /\ returned.ok => ~ConstructionFails /\ pc = "done"

C8_Witness ==
    /\ pc = "panicked"
    /\ variant = "CosetOmegasInvBitreversed"
    /\ domain.ok
    /\ domain.size = 8
    /\ domain.generator = Zero
    /\ returned = NoStruct

(***************************************************************************)
(* C9: in every parallel fill, for every length L and chunk size C >= 1,   *)
(* chunk task i writes only slots [i*C, min((i+1)*C, L)); the write sets   *)
(* are pairwise disjoint and together cover [0, L); every slot is written  *)
(* exactly once, by exactly one task; the constructor returns only after   *)
(* all chunk tasks have finished, so no returned slot still holds the zero *)
(* placeholder of the allocation.                                          *)
(***************************************************************************)
NoZero(t) == \A i \in DOMAIN t : t[i] # Zero
InWriteSet(i, s) ==
    i * chunk <= s /\ s < Min((i + 1) * chunk, VecLen(Target))

C9_DisjointWrites ==
    /\ pc = "join" =>
          /\ chunk >= 1
          /\ \A i \in DOMAIN tasks :
                /\ tasks[i].lo = i * chunk
                /\ tasks[i].hi = Min((i + 1) * chunk, VecLen(Target))
                /\ tasks[i].lo < tasks[i].hi
          /\ \A s \in Indices(VecLen(Target)) :
                /\ Cardinality({i \in DOMAIN tasks : InWriteSet(i, s)}) = 1
                /\ Len(writes[s]) <= 1
                /\ writes[s] # << >> => InWriteSet(writes[s][1], s)
                /\ AllTasksDone => Len(writes[s]) = 1
    /\ pc \in {"clone", "bitreverse", "return", "done"} => tasks = << >>
    /\ returned.ok =>
          /\ tasks = << >>
          /\ NoZero(returned.omegas)
          /\ NoZero(returned.omegas_inv)
          /\ NoZero(returned.coset)

C9_Witness ==
    /\ pc = "join"
    /\ variant = "OmegasInvBitreversed"
    /\ VecLen(omegas) = 8
    /\ chunk = 3
    /\ AllTasksDone
    /\ \A s \in Indices(8) : writes[s] = << s \div 3 >>

(***************************************************************************)
(* C10: in the bit-reversed variants, when the half-length table has       *)
(* length M = 0, 1 or 2 (N = 1, 2 or 4), construction completes and the    *)
(* table is left in natural order by the permutation step, which is        *)
(* skipped; for M = 0 the result is the empty table.                       *)
(***************************************************************************)
SmallDomain ==
    /\ variant \in BitreversedVariants
    /\ domain.ok
    /\ domain.generator # Zero
    /\ domain.size \in {1, 2, 4}

C10_SmallTables ==
    SmallDomain =>
        /\ pc \notin {"panicked", "bitreverse"}
        /\ pc = "done" \/ ENABLED Next
        /\ swaps = << >> /\ k = 0
        /\ returned.ok =>
              /\ returned.omegas =
                    [i \in Indices(HalfSize) |->
                        IF variant = "CosetOmegasInvBitreversed"
                        THEN Mul(ShiftInv, NaturalInvTable[i])
                        ELSE NaturalInvTable[i]]
              /\ domain.size = 1 => returned.omegas = EmptyVec

C10_Witness ==
    /\ SmallDomain
    /\ returned.ok
    /\ variant = "CosetOmegasInvBitreversed"
    /\ domain.size = 4
    /\ returned.omegas = FromSeq(<< ShiftInv, Mul(ShiftInv, InverseOf(domain.generator)) >>)

====
